---------------------------- MODULE Spec2Model ----------------------------
(***************************************************************************)
(* Model of the echo zap logging middleware: request body capture and      *)
(* replay, the response tap, size-bounded UTF-8-aware truncation of the    *)
(* logged bodies and status-driven log severity.                           *)
(*                                                                         *)
(* Strings are sequences of bytes (0..255), as Go strings are.  A Go       *)
(* function that can panic returns a record [panic, val].                  *)
(***************************************************************************)
EXTENDS Integers, Sequences, FiniteSets, TLC

VARIABLES
    call,        \* formatter harness: the function applied and its arguments
    ret,         \* formatter harness: the value it returned
    pc,          \* position of the request inside the middleware
    config,      \* ZapConfig of the middleware instance
    origBody,    \* the request body stream the client sent
    bodyRef,     \* which object req.Body refers to: "nil", "orig", "buffer"
    bufBody,     \* the in-memory replacement stream (bytes.Buffer)
    reqBody,     \* bytes captured by prepareReqAndResp
    respDumper,  \* the response tap: [present, buf]
    writer,      \* the active c.Response().Writer: "recorder" or "dumper"
    recorder,    \* bytes the underlying response writer received
    resp,        \* echo.Response: [status, committed]
    downstream,  \* what the downstream handler read from the request body
    handler,     \* the downstream handler: [calls, err]
    logs,        \* entries handed to the logger, in order
    mw,          \* the middleware's own outcome: [returned, err, reported]
    installed,   \* the request c.Request() gives and the context it carries
    inflight,    \* concurrent requests: per request, its position and locals
    taps,        \* concurrent requests: the response taps created so far
    clog,        \* concurrent requests: entries handed to the shared logger
    regexExcludedPathsReq,   \* path-pattern version: package-level compiled
    regexExcludedPathsResp,  \*   patterns of the request and response side
    instances,   \* path-pattern version: config of each middleware instance built
    served       \* path-pattern version: the last exclusion decision taken

vars == <<call, ret, pc, config, origBody, bodyRef, bufBody, reqBody,
          respDumper, writer, recorder, resp, downstream, handler, logs, mw,
          installed, inflight, taps, clog,
          regexExcludedPathsReq, regexExcludedPathsResp, instances, served>>

instVars == <<regexExcludedPathsReq, regexExcludedPathsResp, instances, served>>

concVars == <<inflight, taps, clog>>

pipeVars == <<pc, config, origBody, bodyRef, bufBody, reqBody,
              respDumper, writer, recorder, resp, downstream, handler, logs, mw,
              installed, concVars, instVars>>

(***************************************************************************)
(* Bounds of the model.                                                    *)
(***************************************************************************)
MaxPad == 10      \* longest ASCII prefix put before the generated characters
MaxUnits == 3     \* number of generated characters after the prefix
MaxSize == 14     \* largest byte budget tried
NegSizes == 2     \* how many negative byte budgets are tried

(***************************************************************************)
(* Byte strings.                                                           *)
(***************************************************************************)
Dots == <<46, 46, 46>>                                       \* "..."
Excluded == <<91, 101, 120, 99, 108, 117, 100, 101, 100, 93>> \* "[excluded]"

IsPrefix(p, s) == Len(p) <= Len(s) /\ SubSeq(s, 1, Len(p)) = p

\* The characters inputs are built from: 'a', U+00E9 (2 bytes), U+20AC
\* (3 bytes), U+1F600 (4 bytes) and the byte 0xFF, which no encoding contains.
Units == { <<97>>, <<195, 169>>, <<226, 130, 172>>, <<240, 159, 152, 128>>, <<255>> }

RECURSIVE UnitSeqs(_)
UnitSeqs(k) ==
    IF k = 0 THEN { <<>> }
    ELSE LET S == UnitSeqs(k - 1) IN S \cup { s \o u : s \in S, u \in Units }

\* "0123456789012..." cut to p bytes
Pad(p) == [i \in 1..p |-> 48 + ((i - 1) % 10)]

Pads == {0} \cup { p \in 1..MaxPad : p >= MaxPad - 3 }

Sizes == (0 - NegSizes)..MaxSize

(***************************************************************************)
(* unicode/utf8.Valid: the decoder's acceptance table.                     *)
(***************************************************************************)
RuneLen(c) ==
    IF c < 128 THEN 1
    ELSE IF c >= 194 /\ c <= 223 THEN 2
    ELSE IF c >= 224 /\ c <= 239 THEN 3
    ELSE IF c >= 240 /\ c <= 244 THEN 4
    ELSE 0

SecondLo(c) == IF c = 224 THEN 160 ELSE IF c = 240 THEN 144 ELSE 128
SecondHi(c) == IF c = 237 THEN 159 ELSE IF c = 244 THEN 143 ELSE 191

RECURSIVE ValidFrom(_, _)
ValidFrom(b, i) ==
    IF i > Len(b) THEN TRUE
    ELSE LET c == b[i]
             n == RuneLen(c)
         IN  IF n = 0 \/ i + n - 1 > Len(b) THEN FALSE
             ELSE IF n = 1 THEN ValidFrom(b, i + 1)
             ELSE IF b[i + 1] < SecondLo(c) \/ b[i + 1] > SecondHi(c) THEN FALSE
             ELSE IF n >= 3 /\ (b[i + 2] < 128 \/ b[i + 2] > 191) THEN FALSE
             ELSE IF n = 4 /\ (b[i + 3] < 128 \/ b[i + 3] > 191) THEN FALSE
             ELSE ValidFrom(b, i + n)

Valid(b) == ValidFrom(b, 1)

(***************************************************************************)
(* The bounded string formatter.                                           *)
(***************************************************************************)
Ok(v) == [panic |-> FALSE, val |-> v]
Panic == [panic |-> TRUE, val |-> <<>>]

\* for !utf8.Valid(validBytes) && len(validBytes) > 0 { drop the last byte }
RECURSIVE TrimInvalid(_)
TrimInvalid(validBytes) ==
    IF ~Valid(validBytes) /\ Len(validBytes) > 0
    THEN TrimInvalid(SubSeq(validBytes, 1, Len(validBytes) - 1))
    ELSE validBytes

\* faulty variant: cuts at the byte budget and never backs up to a character boundary
limitString_RawCut(str, size) ==
    IF Len(str) <= size THEN Ok(str)
    ELSE IF size < 0 THEN Panic
    ELSE Ok(SubSeq(str, 1, size))

\* faulty variant: cuts one byte short of the budget before backing up
limitString_OneShort(str, size) ==
    IF Len(str) <= size THEN Ok(str)
    ELSE IF size < 0 THEN Panic
    ELSE Ok(TrimInvalid(SubSeq(str, 1, IF size > 0 THEN size - 1 ELSE 0)))


\* faulty variant: a budget equal to the length is treated as too small
limitString_StrictFit(str, size) ==
    IF Len(str) < size THEN Ok(str)
    ELSE IF size < 0 THEN Panic
    ELSE Ok(TrimInvalid(SubSeq(str, 1, size)))


\* strBytes[:size] panics for a negative size (slice bounds out of range)
limitString(str, size) ==
    IF Len(str) <= size THEN Ok(str)
    ELSE LET strBytes == str
         IN  IF Len(strBytes) <= size THEN Ok(str)
             ELSE IF size < 0 THEN Panic
             ELSE Ok(TrimInvalid(SubSeq(strBytes, 1, size)))

\* faulty variant: reserves two bytes for the three-byte marker
limitStringWithDots_ShortReserve(str, size) ==
    IF size <= 10 THEN limitString(str, size)
    ELSE LET result == limitString(str, size - 2)
         IN  IF result.panic THEN Panic
             ELSE IF result.val = str THEN Ok(str)
             ELSE Ok(result.val \o Dots)

\* faulty variant: reserves no room for the marker
limitStringWithDots_NoReserve(str, size) ==
    IF size <= 10 THEN limitString(str, size)
    ELSE LET result == limitString(str, size)
         IN  IF result.panic THEN Panic
             ELSE IF result.val = str THEN Ok(str)
             ELSE Ok(result.val \o Dots)

\* faulty variant: the small-budget threshold is dropped, the marker is always added
limitStringWithDots_AlwaysDots(str, size) ==
    LET result == limitString(str, size - 3)
    IN  IF result.panic THEN Panic
        ELSE IF result.val = str THEN Ok(str)
        ELSE Ok(result.val \o Dots)

limitStringWithDots(str, size) ==
    IF size <= 10 THEN limitString(str, size)
    ELSE LET result == limitString(str, size - 3)
         IN  IF result.panic THEN Panic
             ELSE IF result.val = str THEN Ok(str)
             ELSE Ok(result.val \o Dots)

\* faulty variant: the LimitHTTPBody flag is not consulted
limitBody_IgnoresFlag(cfg, str) ==
    limitStringWithDots(str, cfg.LimitSize)


limitBody(cfg, str) ==
    IF ~cfg.LimitHTTPBody THEN Ok(str)
    ELSE limitStringWithDots(str, cfg.LimitSize)

(***************************************************************************)
(* Configuration and construction.  A predicate field holds "nil", the     *)
(* package's default or "custom" (a predicate of the caller).              *)
(***************************************************************************)
DefaultLimitSize == 500
LimitSizes == {0 - 1, 0, 2, 4, 11, MaxSize}
Skippers == {"nil", "DefaultSkipper", "custom"}
BodySkippers == {"nil", "defaultBodySkipper", "custom"}

\* what a Skipper may answer: middleware.DefaultSkipper always answers false
SkipperAnswers(p) == IF p = "DefaultSkipper" THEN {FALSE} ELSE BOOLEAN

\* what a BodySkipper may answer: defaultBodySkipper answers (false, false)
BodySkipperAnswers(p) ==
    IF p = "defaultBodySkipper" THEN {<<FALSE, FALSE>>} ELSE BOOLEAN \X BOOLEAN

DefaultZapConfig ==
    [Skipper |-> "DefaultSkipper", BodySkipper |-> "defaultBodySkipper",
     AreHeadersDump |-> FALSE, IsBodyDump |-> FALSE,
     LimitHTTPBody |-> TRUE, LimitSize |-> DefaultLimitSize]

\* faulty variant: only the Skipper gets a default
MiddlewareWithContextLogger_SkipperOnly(cfgs) ==
    LET c0 == IF Len(cfgs) = 0 THEN DefaultZapConfig ELSE cfgs[1]
    IN  IF c0.Skipper = "nil" THEN [c0 EXCEPT !.Skipper = "DefaultSkipper"] ELSE c0

MiddlewareWithContextLogger(cfgs) ==
    LET c0 == IF Len(cfgs) = 0 THEN DefaultZapConfig ELSE cfgs[1]
        c1 == IF c0.Skipper = "nil" THEN [c0 EXCEPT !.Skipper = "DefaultSkipper"] ELSE c0
        c2 == IF c1.BodySkipper = "nil"
              THEN [c1 EXCEPT !.BodySkipper = "defaultBodySkipper"]
              ELSE c1
    IN  c2

(***************************************************************************)
(* Request id extraction.                                                  *)
(***************************************************************************)
\* faulty variant: the response header is looked at first
getRequestID_ResponseFirst(ctx) ==
    LET requestID == ctx.respID
    IN  IF requestID = <<>> THEN ctx.reqID ELSE requestID

\* ctx.reqID is ctx.Request().Header.Get("X-Request-ID"), ctx.respID is
\* ctx.Response().Header().Get("X-Request-ID")
getRequestID(ctx) ==
    LET requestID == ctx.reqID
    IN  IF requestID = <<>> THEN ctx.respID ELSE requestID

(***************************************************************************)
(* Severity selection.                                                     *)
(***************************************************************************)
\* faulty variant: the boundaries are exclusive
logit_Exclusive(status) ==
    IF status > 500 THEN [level |-> "error", msg |-> "Server error"]
    ELSE IF status > 400 THEN [level |-> "warn", msg |-> "Client error"]
    ELSE IF status > 300 THEN [level |-> "info", msg |-> "Redirection"]
    ELSE [level |-> "info", msg |-> "Success"]

logit(status) ==
    IF status >= 500 THEN [level |-> "error", msg |-> "Server error"]
    ELSE IF status >= 400 THEN [level |-> "warn", msg |-> "Client error"]
    ELSE IF status >= 300 THEN [level |-> "info", msg |-> "Redirection"]
    ELSE [level |-> "info", msg |-> "Success"]


(***************************************************************************)
(* Formatter harness: Init draws one call with its arguments, the actions  *)
(* apply the function called.                                              *)
(***************************************************************************)
MaxStatus == 600  \* largest HTTP status handed to logit

Statuses == (0 - NegSizes)..MaxStatus

\* no configuration value
NoConfig == [Skipper |-> "nil", BodySkipper |-> "nil", AreHeadersDump |-> FALSE,
             IsBodyDump |-> FALSE, LimitHTTPBody |-> FALSE, LimitSize |-> 0]

NoRet == [done |-> FALSE, panic |-> FALSE, val |-> <<>>, level |-> "", msg |-> "",
          cfg |-> NoConfig]

\* reqID, respID: the X-Request-ID values of the request and of the response
\* headers (the empty string when the header is absent)
Call(fn, str, size, limit, status) ==
    [fn |-> fn, str |-> str, size |-> size, limit |-> limit, status |-> status,
     reqID |-> <<>>, respID |-> <<>>, cfgs |-> <<>>]

NoCall == Call("none", <<>>, 0, FALSE, 0)

Fns == {"limitString", "limitStringWithDots", "limitBody", "logit", "getRequestID",
        "MiddlewareWithContextLogger"}

\* the variadic config argument of the constructor: none, or one ZapConfig
\* whose predicates are nil, the package's default or the caller's own
NewCall(cfgs) ==
    [Call("MiddlewareWithContextLogger", <<>>, 0, TRUE, 0) EXCEPT !.cfgs = cfgs]

RequestIDs == { <<>>, <<114, 49>>, <<112, 50>> }

HeaderCall(reqID, respID) ==
    [Call("getRequestID", <<>>, 0, TRUE, 0) EXCEPT !.reqID = reqID, !.respID = respID]

CallConfig(c) ==
    [AreHeadersDump |-> FALSE, IsBodyDump |-> TRUE,
     LimitHTTPBody |-> c.limit, LimitSize |-> c.size]

Returned(r) ==
    [done |-> TRUE, panic |-> r.panic, val |-> r.val, level |-> "", msg |-> "",
     cfg |-> NoConfig]

CallLimitString ==
    /\ call.fn = "limitString" /\ ~ret.done
    /\ ret' = Returned(limitString(call.str, call.size))
    /\ UNCHANGED <<call, pipeVars>>

CallLimitStringWithDots ==
    /\ call.fn = "limitStringWithDots" /\ ~ret.done
    /\ ret' = Returned(limitStringWithDots(call.str, call.size))
    /\ UNCHANGED <<call, pipeVars>>

CallLimitBody ==
    /\ call.fn = "limitBody" /\ ~ret.done
    /\ ret' = Returned(limitBody(CallConfig(call), call.str))
    /\ UNCHANGED <<call, pipeVars>>

CallLogit ==
    /\ call.fn = "logit" /\ ~ret.done
    /\ ret' = [done |-> TRUE, panic |-> FALSE, val |-> <<>>,
               level |-> logit(call.status).level, msg |-> logit(call.status).msg,
               cfg |-> NoConfig]
    /\ UNCHANGED <<call, pipeVars>>

CallGetRequestID ==
    /\ call.fn = "getRequestID" /\ ~ret.done
    /\ ret' = Returned(Ok(getRequestID(call)))
    /\ UNCHANGED <<call, pipeVars>>

\* the constructor; ret.cfg is the config makeHandler is given
CallMiddlewareWithContextLogger ==
    /\ call.fn = "MiddlewareWithContextLogger" /\ ~ret.done
    /\ ret' = [Returned(Ok(<<>>)) EXCEPT !.cfg = MiddlewareWithContextLogger(call.cfgs)]
    /\ UNCHANGED <<call, pipeVars>>


(***************************************************************************)
(* Request body streams.                                                   *)
(***************************************************************************)
NoErr == 0 - 1

\* A client stream holds data, has delivered the first pos bytes and, when
\* errAt >= 0, fails every Read once errAt bytes are delivered.  closeErr:
\* its Close returns an error.
Stream(data, errAt) ==
    [data |-> data, pos |-> 0, errAt |-> errAt, closed |-> FALSE, closeErr |-> FALSE]

\* io.ReadAll: reads until EOF or an error and returns the data read with it
ReadAll(s) ==
    IF s.errAt >= s.pos
    THEN [data |-> SubSeq(s.data, s.pos + 1, s.errAt), err |-> TRUE,
          stream |-> [s EXCEPT !.pos = s.errAt]]
    ELSE [data |-> SubSeq(s.data, s.pos + 1, Len(s.data)), err |-> FALSE,
          stream |-> [s EXCEPT !.pos = Len(s.data)]]

\* the request and response objects reachable from the echo.Context
Ctx == [origBody |-> origBody, bodyRef |-> bodyRef, bufBody |-> bufBody,
        respDumper |-> respDumper, writer |-> writer]

NoDumper == [present |-> FALSE, buf |-> <<>>]

(***************************************************************************)
(* Body interceptor.                                                       *)
(***************************************************************************)
\* faulty variant: the consumed stream is not replaced by a fresh one
prepareReqAndResp_NoReset(cfg, c) ==
    IF ~cfg.IsBodyDump THEN [c |-> c, dumper |-> FALSE, reqBody |-> <<>>]
    ELSE LET rd == ReadAll(c.origBody)
             c1 == IF c.bodyRef = "nil" THEN c
                   ELSE IF ~rd.err
                        THEN [c EXCEPT !.origBody = [rd.stream EXCEPT !.closed = TRUE]]
                        ELSE [c EXCEPT !.origBody = rd.stream]
             c2 == [c1 EXCEPT !.respDumper = [present |-> TRUE, buf |-> <<>>],
                              !.writer = "dumper"]
         IN  [c |-> c2, dumper |-> TRUE,
              reqBody |-> IF c.bodyRef = "nil" THEN <<>> ELSE rd.data]

\* faulty variant: the replacement stream holds the bytes as limited for the log
prepareReqAndResp_LimitedReset(cfg, c) ==
    IF ~cfg.IsBodyDump THEN [c |-> c, dumper |-> FALSE, reqBody |-> <<>>]
    ELSE LET rd == ReadAll(c.origBody)
             c1 == IF c.bodyRef = "nil" THEN c
                   ELSE IF ~rd.err
                        THEN [c EXCEPT !.origBody = [rd.stream EXCEPT !.closed = TRUE],
                                       !.bodyRef = "buffer",
                                       !.bufBody = Stream(limitBody(cfg, rd.data).val, NoErr)]
                        ELSE [c EXCEPT !.origBody = rd.stream]
             c2 == [c1 EXCEPT !.respDumper = [present |-> TRUE, buf |-> <<>>],
                              !.writer = "dumper"]
         IN  [c |-> c2, dumper |-> TRUE,
              reqBody |-> IF c.bodyRef = "nil" THEN <<>> ELSE rd.data]

\* returns the context as it leaves it, whether a tap is returned, and the
\* captured bytes; on a read error reqBody keeps what io.ReadAll returned
\* faulty variant: the tap is created and returned but never made the
\* response's writer
prepareReqAndResp_NoInstall(cfg, c) ==
    IF ~cfg.IsBodyDump THEN [c |-> c, dumper |-> FALSE, reqBody |-> <<>>]
    ELSE LET rd == ReadAll(c.origBody)
             c1 == IF c.bodyRef = "nil" THEN c
                   ELSE IF ~rd.err
                        THEN [c EXCEPT !.origBody = [rd.stream EXCEPT !.closed = TRUE],
                                       !.bodyRef = "buffer",
                                       !.bufBody = Stream(rd.data, NoErr)]
                        ELSE [c EXCEPT !.origBody = rd.stream]
             c2 == [c1 EXCEPT !.respDumper = [present |-> TRUE, buf |-> <<>>]]
         IN  [c |-> c2, dumper |-> TRUE,
              reqBody |-> IF c.bodyRef = "nil" THEN <<>> ELSE rd.data]

\* faulty variant: the IsBodyDump guard is missing
prepareReqAndResp_AlwaysDump(cfg, c) ==
    LET rd == ReadAll(c.origBody)
        c1 == IF c.bodyRef = "nil" THEN c
              ELSE IF ~rd.err
                   THEN [c EXCEPT !.origBody = [rd.stream EXCEPT !.closed = TRUE],
                                  !.bodyRef = "buffer",
                                  !.bufBody = Stream(rd.data, NoErr)]
                   ELSE [c EXCEPT !.origBody = rd.stream]
        c2 == [c1 EXCEPT !.respDumper = [present |-> TRUE, buf |-> <<>>],
                         !.writer = "dumper"]
    IN  [c |-> c2, dumper |-> TRUE,
         reqBody |-> IF c.bodyRef = "nil" THEN <<>> ELSE rd.data]


\* _ = req.Body.Close(): the stream is closed, what Close returns is dropped
prepareReqAndResp(cfg, c) ==
    IF ~cfg.IsBodyDump THEN [c |-> c, dumper |-> FALSE, reqBody |-> <<>>]
    ELSE LET rd == ReadAll(c.origBody)
             c1 == IF c.bodyRef = "nil" THEN c
                   ELSE IF ~rd.err
                        THEN [c EXCEPT !.origBody = [rd.stream EXCEPT !.closed = TRUE],
                                       !.bodyRef = "buffer",
                                       !.bufBody = Stream(rd.data, NoErr)]
                        ELSE [c EXCEPT !.origBody = rd.stream]
             c2 == [c1 EXCEPT !.respDumper = [present |-> TRUE, buf |-> <<>>],
                              !.writer = "dumper"]
         IN  [c |-> c2, dumper |-> TRUE,
              reqBody |-> IF c.bodyRef = "nil" THEN <<>> ELSE rd.data]

\* response.Dumper.Write / echo.Response.Write: the bytes go to the tap's
\* buffer and to the wrapped writer
WriteThrough(b) ==
    /\ recorder' = recorder \o b
    /\ respDumper' = IF writer = "dumper"
                     THEN [respDumper EXCEPT !.buf = respDumper.buf \o b]
                     ELSE respDumper

\* Dumper.GetResponse
GetResponse(d) == d.buf

(***************************************************************************)
(* Log record assembly.                                                    *)
(***************************************************************************)
BaseKeys == <<"status", "latency", "request_id", "method", "uri", "host", "remote_ip">>

\* faulty variant: the header fields are added whatever AreHeadersDump says
addHeaders_Always(cfg) ==
    <<"req.headers", "resp.headers">>


addHeaders(cfg) ==
    IF ~cfg.AreHeadersDump THEN <<>> ELSE <<"req.headers", "resp.headers">>

ExcludeIf(content, skip) == IF Len(content) > 0 /\ skip THEN Excluded ELSE content

\* skipReq, skipResp are what config.BodySkipper(c) returned
addBody(cfg, skipReq, skipResp, body, dumper) ==
    IF ~cfg.IsBodyDump
    THEN [panic |-> FALSE, keys |-> <<>>, req |-> <<>>, resp |-> <<>>]
    ELSE LET reqBodyContent == limitBody(cfg, body)
             respBodyContent == limitBody(cfg, GetResponse(dumper))
         IN  IF reqBodyContent.panic \/ respBodyContent.panic
             THEN [panic |-> TRUE, keys |-> <<>>, req |-> <<>>, resp |-> <<>>]
             ELSE [panic |-> FALSE, keys |-> <<"req.body", "resp.body">>,
                   req |-> ExcludeIf(reqBodyContent.val, skipReq),
                   resp |-> ExcludeIf(respBodyContent.val, skipResp)]


(***************************************************************************)
(* The middleware around one request.                                      *)
(***************************************************************************)
MaxWrites == 2         \* writes the downstream handler makes at most
MaxErrAt == 1          \* a failing stream delivers at most this many bytes first

BodyUnits == { <<>>, <<97>>, <<226, 130, 172>>, <<255>> }
Bodies == { Pad(p) \o u : p \in {0, MaxPad}, u \in BodyUnits }
Chunks == { <<111, 107>>, Pad(MaxPad) \o <<226, 130, 172>> }
ErrBody == <<123, 125>>
HandlerStatuses == {200, 404}
HandlerErrs == {0, 500}     \* 0 is a nil error

Configs ==
    { [AreHeadersDump |-> h, IsBodyDump |-> FALSE,
       LimitHTTPBody |-> TRUE, LimitSize |-> DefaultLimitSize] : h \in BOOLEAN }
    \cup { [AreHeadersDump |-> h, IsBodyDump |-> TRUE,
            LimitHTTPBody |-> FALSE, LimitSize |-> DefaultLimitSize] : h \in BOOLEAN }
    \cup { [AreHeadersDump |-> h, IsBodyDump |-> TRUE,
            LimitHTTPBody |-> TRUE, LimitSize |-> n] : h \in BOOLEAN, n \in LimitSizes }

ClientStreams ==
    UNION { { Stream(d, e) : e \in {NoErr} \cup { k \in 0..MaxErrAt : k <= Len(d) } } :
            d \in Bodies }
    \cup { [Stream(d, NoErr) EXCEPT !.closeErr = TRUE] : d \in Bodies }

NoRead == [read |-> FALSE, data |-> <<>>, err |-> FALSE]

\* returned: the middleware function returned, err: the error it returned
\* (0 is nil), reported: number of c.Error calls it made
NoOutcome == [returned |-> FALSE, err |-> 0, reported |-> 0]

\* req := c.Request(); ctx := req.Context(): what makeHandler sees at entry
EntryRequest == [req |-> "entry", ctx |-> "entry"]

\* defer c.SetRequest(req.WithContext(ctx)), registered under
\* "if config.IsBodyDump": what c.Request() gives once makeHandler has returned
Deferred(cfg, current) == IF cfg.IsBodyDump THEN EntryRequest ELSE current

\* no concurrent requests are modelled
ConcIdle == inflight = <<>> /\ taps = <<>> /\ clog = <<>>

\* the path-pattern version is not running
NoDecision == [inst |-> 0, target |-> "", exReq |-> FALSE, exResp |-> FALSE]

InstIdle ==
    /\ regexExcludedPathsReq = <<>> /\ regexExcludedPathsResp = <<>>
    /\ instances = <<>> /\ served = NoDecision

PipeIdle ==
    /\ config \in Configs
    /\ bufBody = Stream(<<>>, NoErr)
    /\ reqBody = <<>>
    /\ respDumper = NoDumper
    /\ writer = "recorder"
    /\ recorder = <<>>
    /\ resp = [status |-> 200, committed |-> FALSE, writes |-> 0]
    /\ downstream = NoRead
    /\ handler = [calls |-> 0, err |-> 0]
    /\ logs = <<>>
    /\ mw = NoOutcome
    /\ installed = EntryRequest

\* a request arrives at the middleware
Init ==
    /\ call = NoCall /\ ret = NoRet
    /\ pc = "start"
    /\ PipeIdle /\ ConcIdle /\ InstIdle
    /\ \/ bodyRef = "orig" /\ origBody \in ClientStreams
       \/ bodyRef = "nil" /\ origBody = Stream(<<>>, NoErr)

\* the formatter harness: the middleware is not running
FmtInit ==
    /\ \E fn \in Fns :
         IF fn = "logit"
         THEN \E st \in Statuses : call = Call(fn, <<>>, 0, TRUE, st)
         ELSE IF fn = "getRequestID"
         THEN \E a \in RequestIDs, b \in RequestIDs : call = HeaderCall(a, b)
         ELSE IF fn = "MiddlewareWithContextLogger"
         THEN \/ call = NewCall(<<>>)
              \/ \E sk \in Skippers, bsk \in BodySkippers, h \in BOOLEAN,
                     b \in BOOLEAN, l \in BOOLEAN, n \in LimitSizes :
                     call = NewCall(<<[Skipper |-> sk, BodySkipper |-> bsk,
                                       AreHeadersDump |-> h, IsBodyDump |-> b,
                                       LimitHTTPBody |-> l, LimitSize |-> n]>>)
         ELSE \E p \in Pads, u \in UnitSeqs(MaxUnits), n \in Sizes, l \in BOOLEAN :
                /\ fn # "limitBody" => l
                /\ call = Call(fn, Pad(p) \o u, n, l, 0)
    /\ ret = NoRet
    /\ pc = "off"
    /\ PipeIdle /\ ConcIdle /\ InstIdle
    /\ config.IsBodyDump = FALSE /\ config.AreHeadersDump = FALSE
    /\ bodyRef = "nil" /\ origBody = Stream(<<>>, NoErr)

\* faulty variant: a request body that cannot be read ends the request with
\* the error, before next is called
Enter_AbortsOnReadError ==
    /\ pc = "start"
    /\ \E skip \in BOOLEAN :
         IF skip
         THEN /\ pc' = "skipped"
              /\ UNCHANGED <<origBody, bodyRef, bufBody, reqBody, respDumper, writer>>
         ELSE LET r == prepareReqAndResp(config, Ctx)
              IN  /\ pc' = IF config.IsBodyDump /\ bodyRef # "nil" /\ origBody.errAt >= 0
                           THEN "aborted" ELSE "handler"
                  /\ origBody' = r.c.origBody
                  /\ bodyRef' = r.c.bodyRef
                  /\ bufBody' = r.c.bufBody
                  /\ respDumper' = r.c.respDumper
                  /\ writer' = r.c.writer
                  /\ reqBody' = r.reqBody
    /\ UNCHANGED <<call, ret, config, recorder, resp, downstream, handler, logs,
                   mw, installed, concVars, instVars>>


\* faulty variant: the body interceptor runs before the Skipper is consulted
Enter_InterceptsSkipped ==
    /\ pc = "start"
    /\ \E skip \in BOOLEAN :
         LET r == prepareReqAndResp(config, Ctx)
         IN  /\ pc' = IF skip THEN "skipped" ELSE "handler"
             /\ origBody' = r.c.origBody
             /\ bodyRef' = r.c.bodyRef
             /\ bufBody' = r.c.bufBody
             /\ respDumper' = r.c.respDumper
             /\ writer' = r.c.writer
             /\ reqBody' = r.reqBody
    /\ UNCHANGED <<call, ret, config, recorder, resp, downstream, handler, logs,
                   mw, installed, concVars, instVars>>


\* makeHandler up to the call of next: the Skipper, then the body interceptor
\* (makeHandler calls it under "if config.IsBodyDump", the condition
\* prepareReqAndResp tests first itself)
Enter ==
    /\ pc = "start"
    /\ \E skip \in BOOLEAN :
         IF skip
         THEN /\ pc' = "skipped"
              /\ UNCHANGED <<origBody, bodyRef, bufBody, reqBody, respDumper, writer>>
         ELSE LET r == prepareReqAndResp(config, Ctx)
              IN  /\ pc' = "handler"
                  /\ origBody' = r.c.origBody
                  /\ bodyRef' = r.c.bodyRef
                  /\ bufBody' = r.c.bufBody
                  /\ respDumper' = r.c.respDumper
                  /\ writer' = r.c.writer
                  /\ reqBody' = r.reqBody
    /\ UNCHANGED <<call, ret, config, recorder, resp, downstream, handler, logs,
                   mw, installed, concVars, instVars>>

InHandler == pc \in {"handler", "skipped"}

\* the downstream handler reads c.Request().Body to its end
HandlerRead ==
    /\ InHandler /\ ~downstream.read /\ bodyRef # "nil"
    /\ LET rd == ReadAll(IF bodyRef = "orig" THEN origBody ELSE bufBody)
       IN  /\ downstream' = [read |-> TRUE, data |-> rd.data, err |-> rd.err]
           /\ IF bodyRef = "orig"
              THEN origBody' = rd.stream /\ UNCHANGED bufBody
              ELSE bufBody' = rd.stream /\ UNCHANGED origBody
    /\ UNCHANGED <<call, ret, pc, config, bodyRef, reqBody, respDumper, writer,
                   recorder, resp, handler, logs, mw, installed, concVars, instVars>>

\* the downstream handler writes: the first write commits the response
HandlerWrite ==
    /\ InHandler /\ resp.writes < MaxWrites
    /\ \E b \in Chunks, st \in HandlerStatuses :
         /\ resp' = [status |-> IF resp.committed THEN resp.status ELSE st,
                     committed |-> TRUE, writes |-> resp.writes + 1]
         /\ WriteThrough(b)
    /\ UNCHANGED <<call, ret, pc, config, origBody, bodyRef, bufBody, reqBody,
                   writer, downstream, handler, logs, mw, installed, concVars, instVars>>

\* the downstream handler installs another request, with another context
\* (c.SetRequest(r.WithContext(ctx)))
HandlerSetRequest ==
    /\ InHandler /\ installed = EntryRequest
    /\ installed' = [req |-> "handler", ctx |-> "handler"]
    /\ UNCHANGED <<call, ret, pc, config, origBody, bodyRef, bufBody, reqBody,
                   respDumper, writer, recorder, resp, downstream, handler, logs, mw,
                   concVars, instVars>>

\* next(c) returns; on the Skipper's path the middleware returns with it
\* (return next(c))
HandlerReturn ==
    /\ InHandler
    /\ \E err \in HandlerErrs :
         /\ handler' = [calls |-> handler.calls + 1, err |-> err]
         /\ mw' = IF pc = "skipped"
                  THEN [mw EXCEPT !.returned = TRUE, !.err = err]
                  ELSE mw
    /\ pc' = IF pc = "skipped" THEN "passed" ELSE "returned"
    /\ UNCHANGED <<call, ret, config, origBody, bodyRef, bufBody, reqBody,
                   respDumper, writer, recorder, resp, downstream, logs, installed, concVars, instVars>>

\* c.Error(err): the framework's error handler answers unless a response is
\* already committed
AfterError(err) ==
    IF err = 0 \/ resp.committed
    THEN [resp |-> resp, respDumper |-> respDumper, recorder |-> recorder]
    ELSE [resp |-> [resp EXCEPT !.status = err, !.committed = TRUE],
          respDumper |-> IF writer = "dumper"
                         THEN [respDumper EXCEPT !.buf = respDumper.buf \o ErrBody]
                         ELSE respDumper,
          recorder |-> recorder \o ErrBody]

\* faulty variant: the entry is assembled and emitted without waiting for
\* next(c) to return
Finish_BeforeReturn ==
    /\ pc = "handler"
    /\ \E skipReq \in BOOLEAN, skipResp \in BOOLEAN :
         LET a == AfterError(handler.err)
             body == addBody(config, skipReq, skipResp, reqBody, a.respDumper)
             sev == logit(a.resp.status)
         IN  /\ resp' = a.resp
             /\ respDumper' = a.respDumper
             /\ recorder' = a.recorder
             /\ mw' = [returned |-> ~body.panic, err |-> 0,
                       reported |-> mw.reported + IF handler.err # 0 THEN 1 ELSE 0]
             /\ installed' = Deferred(config, installed)
             /\ IF body.panic
                THEN pc' = "panicked" /\ UNCHANGED logs
                ELSE /\ pc' = "done"
                     /\ logs' = Append(logs,
                          [level |-> sev.level, msg |-> sev.msg,
                           status |-> a.resp.status, committed |-> a.resp.committed,
                           keys |-> BaseKeys \o addHeaders(config) \o body.keys,
                           reqBody |-> body.req, respBody |-> body.resp,
                           skipReq |-> skipReq, skipResp |-> skipResp,
                           ctx |-> EntryRequest.ctx])
    /\ UNCHANGED <<call, ret, config, origBody, bodyRef, bufBody, reqBody,
                   writer, downstream, handler, concVars, instVars>>


\* makeHandler after next: error report, fields, headers, bodies, log entry
Finish ==
    /\ pc = "returned"
    /\ \E skipReq \in BOOLEAN, skipResp \in BOOLEAN :
         LET a == AfterError(handler.err)
             body == addBody(config, skipReq, skipResp, reqBody, a.respDumper)
             sev == logit(a.resp.status)
         IN  /\ resp' = a.resp
             /\ respDumper' = a.respDumper
             /\ recorder' = a.recorder
             /\ mw' = [returned |-> ~body.panic, err |-> 0,
                       reported |-> mw.reported + IF handler.err # 0 THEN 1 ELSE 0]
             /\ installed' = Deferred(config, installed)
             /\ IF body.panic
                THEN pc' = "panicked" /\ UNCHANGED logs
                ELSE /\ pc' = "done"
                     /\ logs' = Append(logs,
                          [level |-> sev.level, msg |-> sev.msg,
                           status |-> a.resp.status, committed |-> a.resp.committed,
                           keys |-> BaseKeys \o addHeaders(config) \o body.keys,
                           reqBody |-> body.req, respBody |-> body.resp,
                           skipReq |-> skipReq, skipResp |-> skipResp,
                           ctx |-> EntryRequest.ctx])
    /\ UNCHANGED <<call, ret, config, origBody, bodyRef, bufBody, reqBody,
                   writer, downstream, handler, concVars, instVars>>

Next ==
    \/ Enter
    \/ HandlerRead
    \/ HandlerWrite
    \/ HandlerSetRequest
    \/ HandlerReturn
    \/ Finish

Spec == Init /\ [][Next]_vars

FmtNext ==
    \/ CallLimitString
    \/ CallLimitStringWithDots
    \/ CallLimitBody
    \/ CallLogit
    \/ CallGetRequestID
    \/ CallMiddlewareWithContextLogger

FmtSpec == FmtInit /\ [][FmtNext]_vars


(***************************************************************************)
(* Properties.                                                             *)
(***************************************************************************)
\* the request went through the middleware's own path (the Skipper said no)
\* and prepareReqAndResp has run
Prepared == pc \in {"handler", "returned", "done", "panicked"}

Called(fn) == call.fn = fn /\ ret.done

EndsWithDots(s) == Len(s) >= 3 /\ SubSeq(s, Len(s) - 2, Len(s)) = Dots

\* C1 as stated: for every budget N >= 0 and every string T, invalid bytes
\* included, limitString(T, N) is a prefix of T of at most N bytes and is
\* valid UTF-8.
C1_Original ==
    (Called("limitString") /\ call.size >= 0) =>
        /\ ~ret.panic
        /\ IsPrefix(ret.val, call.str)
        /\ Len(ret.val) <= call.size
        /\ Valid(ret.val)

\* C1 amended: for every budget N >= 0 and every string T, limitString(T, N)
\* is a prefix of T of at most N bytes; it is valid UTF-8 whenever T is
\* longer than N bytes or T is itself valid UTF-8.
C1_PrefixWithinBudget ==
    (Called("limitString") /\ call.size >= 0) =>
        /\ ~ret.panic
        /\ IsPrefix(ret.val, call.str)
        /\ Len(ret.val) <= call.size
        /\ (Len(call.str) > call.size \/ Valid(call.str)) => Valid(ret.val)

\* C1 witness: the budget falls inside a multi-byte character and the
\* result backs up to the character boundary before it
C1_Witness ==
    /\ Called("limitString") /\ call.size >= 0
    /\ Len(call.str) > call.size
    /\ Valid(call.str)
    /\ ~Valid(SubSeq(call.str, 1, call.size))
    /\ Len(ret.val) < call.size /\ Len(ret.val) > 0

\* C2: limitBody with LimitHTTPBody = true and LimitSize <= 0 returns its
\* input unchanged, without failing.
C2_NonPositiveLimitKeepsInput ==
    (Called("limitBody") /\ call.limit /\ call.size <= 0) =>
        (~ret.panic /\ ret.val = call.str)

\* C3: with body dump enabled, a request body stream that fails before EOF
\* gives an empty captured body, however many bytes it delivered first, and
\* the request keeps the original stream object.
C3_ReadErrorCapturesNothing ==
    (Prepared /\ config.IsBodyDump /\ bodyRef # "nil" /\ origBody.errAt >= 0) =>
        (reqBody = <<>> /\ bodyRef = "orig")

C5_LimitDoesNotShortenReplay ==
    (/\ Prepared /\ config.IsBodyDump /\ config.LimitHTTPBody
     /\ config.LimitSize < Len(origBody.data)
     /\ origBody.errAt = NoErr /\ downstream.read) =>
        (Len(downstream.data) = Len(origBody.data) /\ downstream.data = origBody.data)

\* C5 witness: the logged request body was cut to the limit while the
\* handler read the whole body
C5_Witness ==
    /\ pc = "done" /\ config.IsBodyDump /\ config.LimitHTTPBody
    /\ config.LimitSize > 0 /\ config.LimitSize < Len(origBody.data)
    /\ downstream.read /\ downstream.data = origBody.data
    /\ Len(logs) = 1 /\ Len(logs[1].reqBody) < Len(downstream.data)

\* C6: with body dump enabled, a side the body-exclusion predicate skips is
\* logged as "[excluded]" when its captured content is non-empty, whatever
\* the truncation setting, and as the empty string when it is empty; each
\* side is decided on its own.
C6_ExcludedIffCapturedNonEmpty ==
    (pc = "done" /\ config.IsBodyDump) =>
        \A i \in 1..Len(logs) :
            /\ logs[i].skipReq =>
                 logs[i].reqBody = (IF Len(reqBody) > 0 THEN Excluded ELSE <<>>)
            /\ logs[i].skipResp =>
                 logs[i].respBody =
                    (IF Len(GetResponse(respDumper)) > 0 THEN Excluded ELSE <<>>)

\* C7: when the downstream handler finishes without committing a response,
\* the entry is logged at warning level with message "Response not
\* committed", whatever the status.
C7_UncommittedIsWarned ==
    pc = "done" =>
        \A i \in 1..Len(logs) :
            ~logs[i].committed =>
                (logs[i].level = "warn" /\ logs[i].msg = "Response not committed")

C9_DotsAfterLimitedPrefix ==
    (Called("limitStringWithDots") /\ call.size > 10 /\ Len(call.str) > call.size) =>
        /\ ~ret.panic
        /\ EndsWithDots(ret.val)
        /\ ~limitString(call.str, call.size - 3).panic
        /\ SubSeq(ret.val, 1, Len(ret.val) - 3) = limitString(call.str, call.size - 3).val

\* C9 witness: a marker was added after a prefix that had to back up to a
\* character boundary
C9_Witness ==
    /\ Called("limitStringWithDots") /\ call.size > 10 /\ Len(call.str) > call.size
    /\ EndsWithDots(ret.val)
    /\ Len(ret.val) - 3 < call.size - 3

\* C10: for every budget N <= 10 and every string T, limitStringWithDots(T, N)
\* is limitString(T, N): no marker is appended.
C10_SmallBudgetNoDots ==
    (Called("limitStringWithDots") /\ call.size <= 10) =>
        /\ ret.panic = limitString(call.str, call.size).panic
        /\ ret.val = limitString(call.str, call.size).val
        /\ ~ret.panic => (IsPrefix(ret.val, call.str) /\ Len(ret.val) <= Len(call.str))

\* C10 witness: a string cut at a budget of ten bytes, without a marker
C10_Witness ==
    /\ Called("limitStringWithDots") /\ call.size = 10
    /\ Len(call.str) > 10
    /\ ret.val = SubSeq(call.str, 1, 10)

\* C11: with LimitHTTPBody = true and LimitSize > 0, every logged body that
\* is not replaced by the exclusion marker is at most LimitSize bytes long,
\* the "..." marker included.
C11_LoggedBodyWithinLimit ==
    (config.LimitHTTPBody /\ config.LimitSize > 0) =>
        \A i \in 1..Len(logs) :
            /\ logs[i].reqBody # Excluded => Len(logs[i].reqBody) <= config.LimitSize
            /\ logs[i].respBody # Excluded => Len(logs[i].respBody) <= config.LimitSize

\* C11 witness: a request body longer than the limit is logged with the
\* marker and fills the limit exactly
C11_Witness ==
    /\ config.IsBodyDump /\ config.LimitHTTPBody /\ config.LimitSize > 10
    /\ Len(logs) = 1
    /\ Len(reqBody) > config.LimitSize
    /\ EndsWithDots(logs[1].reqBody)
    /\ Len(logs[1].reqBody) = config.LimitSize
    /\ Len(logs[1].respBody) > 0

\* C12: limitBody with LimitHTTPBody = false returns its input unchanged,
\* for every input and every LimitSize, negative and zero included.
C12_LimitOffKeepsInput ==
    (Called("limitBody") /\ ~call.limit) =>
        (~ret.panic /\ ret.val = call.str)

\* C12 witness: limiting is off, the LimitSize is smaller than the input
\* (or not positive), and the input comes back whole
C12_Witness ==
    /\ Called("limitBody") /\ ~call.limit
    /\ call.size < Len(call.str)
    /\ ~Valid(call.str)
    /\ ~ret.panic /\ ret.val = call.str

\* C13: for every string T and budget N with len(T) <= N, limitString(T, N)
\* returns T byte for byte.
C13_FitsIsUnchanged ==
    (Called("limitString") /\ Len(call.str) <= call.size) =>
        (~ret.panic /\ ret.val = call.str)

\* C13 witness: a non-empty string of exactly N bytes that is not valid
\* UTF-8 comes back untouched
C13_Witness ==
    /\ Called("limitString") /\ Len(call.str) = call.size
    /\ call.size > 0
    /\ ~Valid(call.str)
    /\ ret.val = call.str

\* C14: with body dump enabled, prepareReqAndResp makes the response tap the
\* active response writer and returns that tap; after any sequence of writes
\* the tap's accessor returns all bytes written so far, however many, and the
\* wrapped writer has received the same bytes in the same order.
C14_TapSeesEveryWrite ==
    (Prepared /\ config.IsBodyDump) =>
        /\ respDumper.present
        /\ writer = "dumper"
        /\ GetResponse(respDumper) = recorder
        /\ Len(recorder) >= 2 * resp.writes

\* C14 witness: two writes went through the tap and together exceed the
\* configured LimitSize; the accessor holds both, in order
C14_Witness ==
    /\ Prepared /\ config.IsBodyDump /\ config.LimitHTTPBody
    /\ resp.writes = 2
    /\ Len(GetResponse(respDumper)) > config.LimitSize
    /\ \E b1 \in Chunks, b2 \in Chunks :
         b1 # b2 /\ GetResponse(respDumper) = b1 \o b2 /\ recorder = b1 \o b2

\* C15: with body dump disabled, prepareReqAndResp returns no tap and no
\* captured bytes, the response writer is not replaced, and the request body
\* is left unread: the handler reads every original byte.
C15_DumpOffTouchesNothing ==
    (Prepared /\ ~config.IsBodyDump) =>
        /\ ~respDumper.present
        /\ reqBody = <<>>
        /\ writer = "recorder"
        /\ bodyRef # "buffer"
        /\ ~origBody.closed
        /\ ~downstream.read => origBody.pos = 0
        /\ (downstream.read /\ origBody.errAt = NoErr) =>
               (downstream.data = origBody.data /\ ~downstream.err)

\* C15 witness: body dump is off, the handler has read a non-empty body in
\* full and written a response that no tap saw
C15_Witness ==
    /\ Prepared /\ ~config.IsBodyDump
    /\ downstream.read /\ Len(downstream.data) > 0
    /\ downstream.data = origBody.data
    /\ Len(recorder) > 0 /\ respDumper = NoDumper
    /\ Len(logs) = 1

\* C16: when the Skipper returns true, the middleware calls the next handler
\* once and returns that handler's result unchanged; it emits no log entry,
\* reads no request body, installs no response tap.
C16_SkippedPassesThrough ==
    (pc \in {"skipped", "passed"}) =>
        /\ logs = <<>>
        /\ ~respDumper.present /\ writer = "recorder"
        /\ reqBody = <<>> /\ bodyRef # "buffer" /\ ~origBody.closed
        /\ ~downstream.read => origBody.pos = 0
        /\ mw.reported = 0
        /\ pc = "skipped" => (handler.calls = 0 /\ ~mw.returned)
        /\ pc = "passed" =>
               (handler.calls = 1 /\ mw.returned /\ mw.err = handler.err)

\* C16 witness: a skipped request whose handler read the body, wrote a
\* response and returned an error, which the middleware handed back
C16_Witness ==
    /\ pc = "passed"
    /\ handler.err # 0 /\ mw.returned /\ mw.err = handler.err
    /\ downstream.read /\ Len(downstream.data) > 0
    /\ Len(recorder) > 0
    /\ config.IsBodyDump
    /\ logs = <<>>

\* C17: when the downstream handler of a non-skipped request returns an
\* error, the middleware reports it to the framework's error handler exactly
\* once, still emits the log entry, with the severity of the resulting
\* status, and itself returns nil.
C17_HandlerErrorIsReportedAndLogged ==
    (pc \in {"done", "panicked"} /\ handler.err # 0) =>
        /\ mw.reported = 1
        /\ Len(logs) = 1
        /\ logs[1].status = resp.status
        /\ logs[1].level = logit(resp.status).level
        /\ logs[1].msg = logit(resp.status).msg
        /\ mw.returned /\ mw.err = 0

\* C19: every log record carries status, latency, request_id, method, uri,
\* host, remote_ip in that order; then req.headers and resp.headers exactly
\* when AreHeadersDump is true; then req.body and resp.body exactly when
\* IsBodyDump is true.
C19_FieldOrder ==
    \A i \in 1..Len(logs) :
        logs[i].keys =
            <<"status", "latency", "request_id", "method", "uri", "host", "remote_ip">>
            \o (IF config.AreHeadersDump THEN <<"req.headers", "resp.headers">> ELSE <<>>)
            \o (IF config.IsBodyDump THEN <<"req.body", "resp.body">> ELSE <<>>)

\* C19 witness: a record with all eleven fields, headers before bodies
C19_Witness ==
    /\ Len(logs) = 1
    /\ config.AreHeadersDump /\ config.IsBodyDump
    /\ Len(logs[1].keys) = 11
    /\ logs[1].keys[8] = "req.headers" /\ logs[1].keys[11] = "resp.body"
    /\ Len(logs[1].respBody) > 0

\* C20: getRequestID returns the request's X-Request-ID value when it is not
\* empty, otherwise the response headers' X-Request-ID value, otherwise the
\* empty string; the request's value wins when both are set.
C20_RequestIDPrecedence ==
    Called("getRequestID") =>
        /\ ~ret.panic
        /\ call.reqID # <<>> => ret.val = call.reqID
        /\ (call.reqID = <<>> /\ call.respID # <<>>) => ret.val = call.respID
        /\ (call.reqID = <<>> /\ call.respID = <<>>) => ret.val = <<>>

\* C20 witness: both headers are set, to different values, and the
\* request's value is returned
C20_Witness ==
    /\ Called("getRequestID")
    /\ call.reqID # <<>> /\ call.respID # <<>> /\ call.reqID # call.respID
    /\ ret.val = call.reqID

(***************************************************************************)
(* Concurrent requests through one middleware instance.  The handler       *)
(* closure shares config and the logger; respDumper and reqBody are locals *)
(* of each invocation.  Every request sends and answers with bytes of its  *)
(* own, so a foreign byte in a logged body is recognisable.                *)
(***************************************************************************)
NumReqs == 2
Reqs == 1..NumReqs

soloVars == <<call, ret, pc, config, origBody, bodyRef, bufBody, reqBody,
              respDumper, writer, recorder, resp, downstream, handler, logs, mw,
              installed>>

ReqByte(r) == 48 + r       \* "1", "2", ...
RespByte(r) == 64 + r      \* "A", "B", ...
ReqBodyOf(r) == [i \in 1..(3 * r) |-> ReqByte(r)]
RespChunkOf(r) == [i \in 1..(2 * r) |-> RespByte(r)]

\* faulty variant: one pooled tap serves every request
NewDumper_Pooled(r) == 1

\* response.NewDumper allocates a tap per call: the tap of request r
NewDumper(r) == r

Arrived(r) ==
    [pc |-> "start", origBody |-> Stream(ReqBodyOf(r), NoErr), bodyRef |-> "orig",
     bufBody |-> Stream(<<>>, NoErr), respDumper |-> NoDumper, writer |-> "recorder",
     reqBody |-> <<>>, tap |-> 0, recorder |-> <<>>, writes |-> 0]

ConcInit ==
    /\ call = NoCall /\ ret = NoRet
    /\ pc = "off"
    /\ PipeIdle /\ InstIdle /\ config.IsBodyDump /\ ~config.AreHeadersDump
    /\ bodyRef = "nil" /\ origBody = Stream(<<>>, NoErr)
    /\ inflight = [r \in Reqs |-> Arrived(r)]
    /\ taps = [r \in Reqs |-> NoDumper]
    /\ clog = <<>>

\* request r: makeHandler up to the call of next
ConcEnter(r) ==
    /\ inflight[r].pc = "start"
    /\ LET p == prepareReqAndResp(config, inflight[r])
       IN  /\ inflight' = [inflight EXCEPT
                             ![r] = [p.c EXCEPT !.pc = "handler",
                                                !.reqBody = p.reqBody,
                                                !.tap = NewDumper(r)]]
           /\ taps' = [taps EXCEPT ![NewDumper(r)] = p.c.respDumper]
    /\ UNCHANGED <<soloVars, instVars, clog>>

\* request r: its handler writes a chunk through the response writer
ConcWrite(r) ==
    /\ inflight[r].pc = "handler" /\ inflight[r].writes < MaxWrites
    /\ inflight' = [inflight EXCEPT
                      ![r].recorder = @ \o RespChunkOf(r),
                      ![r].writes = @ + 1]
    /\ taps' = IF inflight[r].writer = "dumper"
               THEN [taps EXCEPT ![inflight[r].tap].buf = @ \o RespChunkOf(r)]
               ELSE taps
    /\ UNCHANGED <<soloVars, instVars, clog>>

\* request r: next returned nil; fields, bodies, log entry
ConcFinish(r) ==
    /\ inflight[r].pc = "handler"
    /\ \E skipReq \in BOOLEAN, skipResp \in BOOLEAN :
         LET body == addBody(config, skipReq, skipResp,
                             inflight[r].reqBody, taps[inflight[r].tap])
         IN  IF body.panic
             THEN /\ inflight' = [inflight EXCEPT ![r].pc = "panicked"]
                  /\ UNCHANGED clog
             ELSE /\ inflight' = [inflight EXCEPT ![r].pc = "done"]
                  /\ clog' = Append(clog, [req |-> r, reqBody |-> body.req,
                                           respBody |-> body.resp])
    /\ UNCHANGED <<soloVars, instVars, taps>>

ConcNext ==
    \E r \in Reqs :
        \/ ConcEnter(r)
        \/ ConcWrite(r)
        \/ ConcFinish(r)

ConcSpec == ConcInit /\ [][ConcNext]_vars

Bytes(s) == { s[i] : i \in 1..Len(s) }

\* C18: under any interleaving of concurrent requests through one middleware
\* instance, each request has a response tap of its own, and the req.body
\* and resp.body logged for a request hold only bytes of that request and of
\* its response (besides the "..." and "[excluded]" markers): the resp.body
\* is the limited form of what the request's own writer received.
C18_NoForeignBytes ==
    /\ \A r \in Reqs, s \in Reqs :
           (r # s /\ inflight[r].tap # 0 /\ inflight[s].tap # 0) =>
               inflight[r].tap # inflight[s].tap
    /\ \A i \in 1..Len(clog) :
           LET e == clog[i]
           IN  /\ e.reqBody = Excluded
                  \/ Bytes(e.reqBody) \subseteq {ReqByte(e.req)} \cup Bytes(Dots)
               /\ e.respBody = Excluded
                  \/ Bytes(e.respBody) \subseteq {RespByte(e.req)} \cup Bytes(Dots)
               /\ e.respBody \in {Excluded,
                                  limitBody(config, inflight[e.req].recorder).val}

\* C18 witness: two requests were in their handlers at the same time, both
\* wrote, and the one that finished first logged its own bodies
C18_Witness ==
    /\ Len(clog) >= 1
    /\ \E s \in Reqs :
         /\ s # clog[1].req
         /\ inflight[s].pc = "handler" /\ inflight[s].writes > 0
    /\ inflight[clog[1].req].writes > 0
    /\ Len(clog[1].respBody) > 0 /\ clog[1].respBody # Excluded
    /\ Len(clog[1].reqBody) > 0 /\ clog[1].reqBody # Excluded

\* C21: a middleware built without a configuration uses the defaults: body
\* dump off, header dump off, size limiting on with LimitSize 500, a Skipper
\* that never skips, a BodySkipper that never excludes.  A supplied
\* configuration keeps its fields, except that a nil Skipper or BodySkipper
\* is replaced by the default predicate: the handler never holds a nil
\* predicate.
C21_DefaultsAndNilPredicates ==
    Called("MiddlewareWithContextLogger") =>
        /\ ret.cfg.Skipper # "nil" /\ ret.cfg.BodySkipper # "nil"
        /\ Len(call.cfgs) = 0 =>
               /\ ~ret.cfg.IsBodyDump /\ ~ret.cfg.AreHeadersDump
               /\ ret.cfg.LimitHTTPBody /\ ret.cfg.LimitSize = 500
               /\ SkipperAnswers(ret.cfg.Skipper) = {FALSE}
               /\ BodySkipperAnswers(ret.cfg.BodySkipper) = {<<FALSE, FALSE>>}
        /\ Len(call.cfgs) > 0 =>
               LET given == call.cfgs[1]
               IN  /\ ret.cfg.Skipper =
                          IF given.Skipper = "nil" THEN "DefaultSkipper" ELSE given.Skipper
                   /\ ret.cfg.BodySkipper =
                          IF given.BodySkipper = "nil" THEN "defaultBodySkipper"
                          ELSE given.BodySkipper
                   /\ ret.cfg.AreHeadersDump = given.AreHeadersDump
                   /\ ret.cfg.IsBodyDump = given.IsBodyDump
                   /\ ret.cfg.LimitHTTPBody = given.LimitHTTPBody
                   /\ ret.cfg.LimitSize = given.LimitSize

\* C21 witness: a configuration with body dump on, its own Skipper and a nil
\* BodySkipper is given the default BodySkipper
C21_Witness ==
    /\ Called("MiddlewareWithContextLogger")
    /\ Len(call.cfgs) = 1
    /\ call.cfgs[1].IsBodyDump
    /\ call.cfgs[1].Skipper = "custom" /\ call.cfgs[1].BodySkipper = "nil"
    /\ ret.cfg.Skipper = "custom" /\ ret.cfg.BodySkipper = "defaultBodySkipper"

\* a step of the downstream handler: it reads, writes or returns
HandlerStep ==
    \/ handler' # handler
    \/ downstream' # downstream
    \/ resp'.writes > resp.writes

\* C22: within one non-skipped request, the request body is captured and the
\* response tap installed before the downstream handler does anything; the
\* log entry is emitted only after the handler has returned, it is the only
\* one, and its resp.body is made of every byte written to the response.
C22_StepOrder ==
    [][ /\ (HandlerStep /\ pc # "skipped") =>
              /\ pc = "handler" /\ logs = <<>>
              /\ config.IsBodyDump =>
                    /\ respDumper.present /\ writer = "dumper"
                    /\ (bodyRef # "nil" /\ origBody.errAt = NoErr) =>
                           reqBody = origBody.data
        /\ logs' # logs =>
              /\ pc = "returned" /\ handler.calls = 1
              /\ ~HandlerStep
              /\ logs = <<>> /\ Len(logs') = 1
              /\ config.IsBodyDump =>
                    logs'[1].respBody =
                        ExcludeIf(limitBody(config, recorder').val, logs'[1].skipResp)
      ]_vars

\* C22 witness: the handler read the captured body, wrote twice and
\* returned; the entry emitted afterwards carries both writes
C22_Witness ==
    /\ pc = "done" /\ Len(logs) = 1
    /\ config.IsBodyDump /\ ~config.LimitHTTPBody
    /\ downstream.read /\ Len(downstream.data) > 0
    /\ resp.writes = 2
    /\ logs[1].respBody = recorder
    /\ logs[1].reqBody = downstream.data

\* C23: for every request, skipped or not, and whatever happens while the
\* request body is captured (no body, a read without error, a read error, a
\* Close error), the downstream handler is invoked exactly once: the
\* middleware never ends a request without calling it and never calls it
\* twice.
C23_HandlerInvokedOnce ==
    /\ pc \in {"start", "handler", "skipped"} => handler.calls = 0
    /\ pc \notin {"start", "handler", "skipped"} =>
           /\ pc \in {"passed", "returned", "done", "panicked"}
           /\ handler.calls = 1

\* C23 witness: the request body failed while it was captured, and the
\* handler was still invoked, once
C23_Witness ==
    /\ pc = "done" /\ config.IsBodyDump
    /\ bodyRef = "orig" /\ origBody.errAt >= 0
    /\ handler.calls = 1
    /\ Len(logs) = 1

\* C24: with IsBodyDump and LimitHTTPBody enabled and LimitSize = L > 0, for
\* a request body longer than L+1 bytes the bytes prepareReqAndResp captures
\* are exactly the first L+1 bytes of the body, while the downstream handler
\* still reads the full body.
C24_CaptureCappedAtLimitPlusOne ==
    (/\ Prepared /\ config.IsBodyDump /\ config.LimitHTTPBody /\ config.LimitSize > 0
     /\ bodyRef # "nil" /\ origBody.errAt = NoErr
     /\ Len(origBody.data) > config.LimitSize + 1) =>
        /\ reqBody = SubSeq(origBody.data, 1, config.LimitSize + 1)
        /\ downstream.read => downstream.data = origBody.data

(***************************************************************************)
(* The version that excludes bodies by path patterns.  makeHandler         *)
(* compiles the patterns of its config into two package-level variables,   *)
(* which every instance's addBody reads.                                   *)
(***************************************************************************)
NumInstances == 2
Instances == 1..NumInstances

\* a request target: the URL path and the route (endpoint) that matched it
Targets == {"a", "b"}
PathOf(t) == IF t = "a" THEN "/a/1" ELSE "/b/1"
EndpointOf(t) == IF t = "a" THEN "/a/:id" ELSE "/b/:id"

\* entries of DumpNoRequestBodyForPaths / DumpNoResponseBodyForPaths: two
\* regular expressions, an endpoint, and a text regexp.Compile rejects
PathLists == { <<>>, <<"^/a">>, <<"/a/:id">>, <<"[", "^/b">> }

\* regexp.Compile(path) succeeds
Compiles(path) == path # "["

\* regexExcludedPath.MatchString(path)
MatchString(regex, path) ==
    \/ regex = "^/a" /\ path = "/a/1"
    \/ regex = "^/b" /\ path = "/b/1"

isExcluded(path, endpoint, regexs, endpoints) ==
    \/ \E i \in 1..Len(endpoints) : endpoints[i] = endpoint
    \/ \E i \in 1..Len(regexs) : MatchString(regexs[i], path)

\* the value prepareRegexs leaves in one of the package-level variables
CompiledFrom(cfg, paths) ==
    IF ~cfg.IsBodyDump THEN <<>> ELSE SelectSeq(paths, Compiles)

InstInit ==
    /\ call = NoCall /\ ret = NoRet
    /\ pc = "off"
    /\ PipeIdle /\ ConcIdle
    /\ config.IsBodyDump = FALSE /\ config.AreHeadersDump = FALSE
    /\ bodyRef = "nil" /\ origBody = Stream(<<>>, NoErr)
    /\ regexExcludedPathsReq = <<>> /\ regexExcludedPathsResp = <<>>
    /\ instances = [i \in Instances |-> [built |-> FALSE, IsBodyDump |-> FALSE,
                                         DumpNoRequestBodyForPaths |-> <<>>,
                                         DumpNoResponseBodyForPaths |-> <<>>]]
    /\ served = NoDecision

\* makeHandler(ctxLogger, config) for instance i: prepareRegexs overwrites
\* both package-level variables
Build(i) ==
    /\ ~instances[i].built
    /\ \E dump \in BOOLEAN, reqPaths \in PathLists, respPaths \in PathLists :
         LET cfg == [built |-> TRUE, IsBodyDump |-> dump,
                     DumpNoRequestBodyForPaths |-> reqPaths,
                     DumpNoResponseBodyForPaths |-> respPaths]
         IN  /\ instances' = [instances EXCEPT ![i] = cfg]
             /\ regexExcludedPathsReq' = CompiledFrom(cfg, reqPaths)
             /\ regexExcludedPathsResp' = CompiledFrom(cfg, respPaths)
    /\ UNCHANGED <<soloVars, concVars, served>>

\* addBody of instance i for a request with non-empty bodies: the two
\* exclusion decisions
Serve(i) ==
    /\ instances[i].built /\ instances[i].IsBodyDump
    /\ \E t \in Targets :
         served' = [inst |-> i, target |-> t,
                    exReq |-> isExcluded(PathOf(t), EndpointOf(t), regexExcludedPathsReq,
                                         instances[i].DumpNoRequestBodyForPaths),
                    exResp |-> isExcluded(PathOf(t), EndpointOf(t), regexExcludedPathsResp,
                                          instances[i].DumpNoResponseBodyForPaths)]
    /\ UNCHANGED <<soloVars, concVars, regexExcludedPathsReq, regexExcludedPathsResp,
                   instances>>

InstNext ==
    \E i \in Instances :
        \/ Build(i)
        \/ Serve(i)

InstSpec == InstInit /\ [][InstNext]_vars

\* C25: two middleware instances built in one process with different
\* body-exclusion configurations do not interfere: in whatever order they
\* are built and used, an instance's decision to exclude a request or a
\* response body is the one its own configuration gives.
C25_InstancesDoNotInterfere ==
    served.inst # 0 =>
        LET cfg == instances[served.inst]
        IN  /\ served.exReq =
                   isExcluded(PathOf(served.target), EndpointOf(served.target),
                              CompiledFrom(cfg, cfg.DumpNoRequestBodyForPaths),
                              cfg.DumpNoRequestBodyForPaths)
            /\ served.exResp =
                   isExcluded(PathOf(served.target), EndpointOf(served.target),
                              CompiledFrom(cfg, cfg.DumpNoResponseBodyForPaths),
                              cfg.DumpNoResponseBodyForPaths)

Reserve(size) == IF size <= 10 THEN size ELSE size - 3

C27_ExcludedFieldHidesContent ==
    \A i \in 1..Len(logs) :
        /\ (config.IsBodyDump /\ logs[i].skipReq /\ Len(reqBody) > 0) =>
               \A other \in Bodies \ {<<>>} :
                   addBody(config, TRUE, logs[i].skipResp, other, respDumper).req
                       = logs[i].reqBody
        /\ (config.IsBodyDump /\ logs[i].skipResp /\ Len(GetResponse(respDumper)) > 0) =>
               \A other \in Chunks \cup {ErrBody} :
                   addBody(config, logs[i].skipReq, TRUE, reqBody,
                           [respDumper EXCEPT !.buf = other]).resp
                       = logs[i].respBody

\* C28: for valid UTF-8 input T of more than N >= 0 bytes, limitString(T, N)
\* is the longest prefix of T that ends on a character boundary and has at
\* most N bytes; it drops no more than needed, so it has at least N-3 bytes.
C28_LongestBoundaryPrefix ==
    (/\ Called("limitString") /\ call.size >= 0
     /\ Valid(call.str) /\ Len(call.str) > call.size) =>
        /\ ~ret.panic
        /\ IsPrefix(ret.val, call.str)
        /\ Valid(ret.val)
        /\ Len(ret.val) <= call.size
        /\ \A k \in (Len(ret.val) + 1)..call.size : ~Valid(SubSeq(call.str, 1, k))
        /\ Len(ret.val) >= call.size - 3

\* C28 witness: the budget ends three bytes into a four-byte character, and
\* exactly those three bytes are dropped
C28_Witness ==
    /\ Called("limitString") /\ call.size >= 4
    /\ Valid(call.str) /\ Len(call.str) > call.size
    /\ Len(ret.val) = call.size - 3
    /\ Valid(SubSeq(call.str, 1, call.size + 1))

\* C29: for every non-skipped request, whatever the body-dump setting, once the
\* middleware has returned the request installed on the framework context is
\* the request seen at entry with the context it had at entry, even if the
\* handler installed another one meanwhile; and the log entry went through the
\* logger bound to that entry context.
C29_EntryRequestRestored ==
    pc = "done" =>
        /\ installed = EntryRequest
        /\ \A i \in 1..Len(logs) : logs[i].ctx = EntryRequest.ctx


\* the field names of a log entry
Keys(entry) == { entry.keys[i] : i \in 1..Len(entry.keys) }

\* C30: every non-skipped request produces exactly one log entry, emitted
\* after the downstream handler has returned; the headers and the bodies, when
\* enabled, are fields of that one entry and there is no second entry.
C30_ExactlyOneEntry ==
    /\ pc \in {"start", "handler", "returned"} => logs = <<>>
    /\ pc \in {"done", "panicked"} =>
          /\ handler.calls = 1
          /\ Len(logs) = 1
          /\ config.AreHeadersDump =>
                {"req.headers", "resp.headers"} \subseteq Keys(logs[1])
          /\ config.IsBodyDump =>
                {"req.body", "resp.body"} \subseteq Keys(logs[1])


=============================================================================
